---- MODULE Spec2Model ----
(***************************************************************************)
(* Model of the fontChanger browser extension: the settings store          *)
(* (utils/storage), whose mutators are read-modify-write sequences over    *)
(* chrome.storage.sync, called from one or several execution contexts.     *)
(*                                                                         *)
(* Strings that the code trims are sequences of one-character strings, so  *)
(* that trim() is a computation and not the identity.  Domains are         *)
(* ordinary host names (own properties of the siteSettings object).        *)
(***************************************************************************)
EXTENDS Integers, Sequences, FiniteSets, TLC

\* ------------------------------------------------------------------ bounds
MaxPresets == 2      \* addPreset is not called once this many are stored
MaxInFlight == 1     \* events, messages and runs on their way to the page, each

\* ------------------------------------------------------------- value sets
\* execution contexts and call chains that call the store (options page,
\* popup, one more chain)
Ctx == {1, 2, 3}

\* the two of them that race on one field
TwoCtx == {1, 2}

Chars == {" ", "a"}

\* the names handed to the store: "", " ", "a", "  ", " a", "a ", "aa"
RawNames == UNION {[1..n -> Chars] : n \in 0..2}

\* values of Date.now() and suffixes drawn from Math.random() when
\* generateId runs: the calls fall in the same millisecond
Times == {0}

Rands == {0, 1}

Domains == {"example.com", "site.org"}

Keys == {"favoriteFonts", "siteSettings", "presets"}

\* lineHeight is in tenths, fontSizeScale in hundredths (1.6 -> 16, 1 -> 100)
DEFAULT_SITE_STYLES ==
    [lineHeight |-> 16, letterSpacing |-> "0px", wordSpacing |-> "0px",
     fontWeight |-> "inherit", fontSizeScale |-> 100]

BoldStyles ==
    [lineHeight |-> 20, letterSpacing |-> "1px", wordSpacing |-> "2px",
     fontWeight |-> "700", fontSizeScale |-> 120]

StylesSet == {DEFAULT_SITE_STYLES, BoldStyles}

\* the default styles with the weight slider at 700
HeavyStyles == [DEFAULT_SITE_STYLES EXCEPT !.fontWeight = "700"]

FontA == <<"a">>

FontAA == <<"a", "a">>

SettingsSet ==
    {[isActive |-> TRUE,  fontFamily |-> FontA,  styles |-> DEFAULT_SITE_STYLES],
     [isActive |-> FALSE, fontFamily |-> FontAA, styles |-> BoldStyles]}

\* arguments (name, fontFamily, styles) of addPreset / updatePreset
PresetArgs ==
    {<<<<" ", "a">>, FontA, DEFAULT_SITE_STYLES>>,
     <<<<"a", "a">>, FontAA, BoldStyles>>}

DEFAULT_STORAGE ==
    [favoriteFonts |-> <<>>, siteSettings |-> <<>>, presets |-> <<>>]

\* ---------------------------------------------------------- pure helpers
RECURSIVE TrimStart(_)
TrimStart(s) ==
    IF s # <<>> /\ Head(s) = " " THEN TrimStart(Tail(s)) ELSE s

RECURSIVE TrimEnd(_)
TrimEnd(s) ==
    IF s # <<>> /\ s[Len(s)] = " " THEN TrimEnd(SubSeq(s, 1, Len(s) - 1)) ELSE s

\* String.prototype.trim
Trim(s) == TrimEnd(TrimStart(s))

\* the elements of a sequence
Range(seq) == {seq[i] : i \in 1..Len(seq)}

\* Array.prototype.includes
Includes(seq, x) == \E i \in 1..Len(seq) : seq[i] = x

\* a filter that compares with the trimmed name
RECURSIVE FilterFont_Trimmed(_, _)
FilterFont_Trimmed(fonts, fontName) ==
    IF fonts = <<>> THEN <<>>
    ELSE IF Head(fonts) # Trim(fontName)
         THEN <<Head(fonts)>> \o FilterFont_Trimmed(Tail(fonts), fontName)
         ELSE FilterFont_Trimmed(Tail(fonts), fontName)

\* favoriteFonts.filter(f => f !== fontName)
RECURSIVE FilterFont(_, _)
FilterFont(fonts, fontName) ==
    IF fonts = <<>> THEN <<>>
    ELSE IF Head(fonts) # fontName
         THEN <<Head(fonts)>> \o FilterFont(Tail(fonts), fontName)
         ELSE FilterFont(Tail(fonts), fontName)

\* presets.filter(p => p.id !== presetId)
RECURSIVE FilterPreset(_, _)
FilterPreset(presets, presetId) ==
    IF presets = <<>> THEN <<>>
    ELSE IF Head(presets).id # presetId
         THEN <<Head(presets)>> \o FilterPreset(Tail(presets), presetId)
         ELSE FilterPreset(Tail(presets), presetId)

\* presets.findIndex(p => p.id === presetId), 1-based; 0 stands for -1
FindIndex(presets, presetId) ==
    IF \E i \in 1..Len(presets) : presets[i].id = presetId
    THEN CHOOSE i \in 1..Len(presets) :
            /\ presets[i].id = presetId
            /\ \A j \in 1..(i - 1) : presets[j].id # presetId
    ELSE 0

\* chrome.storage.sync.get(defaults): the stored value of every key of
\* defaults that is stored, the default for the others
ChromeGet(s, defaults) ==
    [k \in DOMAIN defaults |-> IF k \in DOMAIN s THEN s[k] ELSE defaults[k]]

\* a set that replaces the whole stored document by data
ChromeSet_Replace(s, data) == data

\* a set that merges a stored mapping with the new one, key by key
ChromeSet_MergeMaps(s, data) ==
    [k \in (DOMAIN s) \cup (DOMAIN data) |->
        IF k \notin DOMAIN data THEN s[k]
        ELSE IF k = "siteSettings" /\ k \in DOMAIN s
        THEN [d \in (DOMAIN s[k]) \cup (DOMAIN data[k]) |->
                IF d \in DOMAIN data[k] THEN data[k][d] ELSE s[k][d]]
        ELSE data[k]]

\* chrome.storage.sync.set(data): the keys of data are overwritten one by
\* one, the other stored keys are kept
ChromeSet(s, data) ==
    [k \in (DOMAIN s) \cup (DOMAIN data) |->
        IF k \in DOMAIN data THEN data[k] ELSE s[k]]

\* a getStorage that spreads the defaults over the result:
\* {...result, ...DEFAULT_STORAGE, presets: result.presets || []}
getStorage_DefaultsLast(s) ==
    LET result == ChromeGet(s, DEFAULT_STORAGE)
    IN  [k \in (DOMAIN DEFAULT_STORAGE) \cup (DOMAIN result) \cup {"presets"} |->
            IF k = "presets" THEN result.presets
            ELSE IF k \in DOMAIN DEFAULT_STORAGE THEN DEFAULT_STORAGE[k]
            ELSE result[k]]

\* getStorage once chrome.storage.sync.get has resolved
getStorage(s) ==
    LET result == ChromeGet(s, DEFAULT_STORAGE)
    IN  [k \in (DOMAIN DEFAULT_STORAGE) \cup (DOMAIN result) \cup {"presets"} |->
            IF k = "presets" THEN result.presets   \* an array, never falsy
            ELSE IF k \in DOMAIN result THEN result[k]
            ELSE DEFAULT_STORAGE[k]]

\* an assignment that keeps the isActive of an entry already there
SiteAssign_KeepActive(m, domain, settings) ==
    [d \in (DOMAIN m) \cup {domain} |->
        IF d # domain THEN m[d]
        ELSE IF d \in DOMAIN m
        THEN [settings EXCEPT !.isActive = m[d].isActive]
        ELSE settings]

\* storage.siteSettings[domain] = settings
SiteAssign(m, domain, settings) ==
    [d \in (DOMAIN m) \cup {domain} |-> IF d = domain THEN settings ELSE m[d]]

\* a delete of the property named "domain"
SiteDelete_LiteralKey(m, domain) ==
    [d \in (DOMAIN m) \ {"domain"} |-> m[d]]

\* delete storage.siteSettings[domain]
SiteDelete(m, domain) ==
    [d \in (DOMAIN m) \ {domain} |-> m[d]]

\* a value that may be null: <<>> is null, <<v>> is v
Null == <<>>

Some(v) == <<v>>

\* storage.siteSettings[domain] || null
SiteLookup(m, domain) ==
    IF domain \in DOMAIN m THEN Some(m[domain]) ELSE Null

\* generateId: Date.now() in base 36 followed by the Math.random() suffix
generateId(time, rnd) == <<time, rnd>>

\* the record addPreset builds
NewPreset(id, name, fontFamily, styles) ==
    [id |-> id, name |-> Trim(name), fontFamily |-> fontFamily, styles |-> styles]

\* an update that stores the name as typed
UpdatedPreset_NoTrim(preset, name, fontFamily, styles) ==
    [id |-> preset.id, name |-> name, fontFamily |-> fontFamily,
     styles |-> styles]

\* the record updatePreset puts in place of preset
UpdatedPreset(preset, name, fontFamily, styles) ==
    [id |-> preset.id, name |-> Trim(name), fontFamily |-> fontFamily,
     styles |-> styles]

\* createDefaultSiteSettings(fontFamily)
createDefaultSiteSettings(fontFamily) ==
    [isActive |-> TRUE, fontFamily |-> fontFamily, styles |-> DEFAULT_SITE_STYLES]

\* ------------------------------------------------------------------ URLs
\* A URL string is the sequence of its pieces: <<scheme, "//", host, path>>
\* or <<scheme, rest>>; a string that does not start with a scheme is not a
\* URL.
Schemes ==
    {"https:", "http:", "file:", "chrome:", "edge:", "about:", "chrome-extension:"}

Hosts == {"example.com", "site.org", ""}

\* the string of a URL with an authority part
Href(scheme, host, path) == <<scheme, "//", host, path>>

Urls ==
    {Href(sc, h, "/a") : sc \in Schemes, h \in Hosts}
        \cup {<<"about:", "blank">>, <<"example.com", "/a">>, <<"//", "site.org">>, <<>>}

\* new URL(url): whether it throws, and the protocol and hostname if not
URLParse(url) ==
    IF url = <<>> \/ Head(url) \notin Schemes
    THEN [ok |-> FALSE, protocol |-> "", hostname |-> ""]
    ELSE LET host == IF Len(url) >= 3 /\ url[2] = "//" THEN url[3] ELSE ""
         IN  IF Head(url) \in {"https:", "http:"} /\ host = ""
             THEN [ok |-> FALSE, protocol |-> "", hostname |-> ""]
             ELSE [ok |-> TRUE, protocol |-> Head(url), hostname |-> host]

\* an extractDomain that lets about: URLs through
extractDomain_NoAbout(url) ==
    LET urlObj == URLParse(url)
    IN  IF ~urlObj.ok THEN Null
        ELSE IF urlObj.protocol \in {"chrome:", "edge:", "chrome-extension:"}
        THEN Null
        ELSE Some(urlObj.hostname)

\* extractDomain(url): the hostname, or null
extractDomain(url) ==
    LET urlObj == URLParse(url)
    IN  IF ~urlObj.ok THEN Null
        ELSE IF urlObj.protocol \in {"chrome:", "edge:", "about:", "chrome-extension:"}
        THEN Null
        ELSE Some(urlObj.hostname)

\* a string used where a boolean is expected: "" is falsy
Truthy(str) == str # ""

\* -------------------------------------------------------- style renderer
\* A class attribute is the sequence of its fragments; " " separates the
\* class names.  "monospace" is <<"mono", "space">>, "fa-" is <<"fa", "-">>,
\* "glyphicon" is <<"glyph", "icon">>.
Frags ==
    {"icon", "Icon", "fa", "-", " ", "s", "r", "b", "material", "glyph",
     "emoji", "mono", "space", "x"}

ClassAttrs == UNION {[1..n -> Frags] : n \in 0..2}

Tags == {"i", "svg", "path", "code", "pre", "kbd", "span"}

\* the elements of a page: tag, class attribute, and whether an svg element
\* is among the ancestors
Elements == [tag : Tags, class : ClassAttrs, inSvg : BOOLEAN]

\* String.prototype.includes on fragment sequences
Contains(hay, needle) ==
    \E i \in 0..(Len(hay) - Len(needle)) :
        \A j \in 1..Len(needle) : hay[i + j] = needle[j]

\* the class names of a class attribute
RECURSIVE ClassNames(_, _)
ClassNames(class, cur) ==
    IF class = <<>> THEN (IF cur = <<>> THEN {} ELSE {cur})
    ELSE IF Head(class) = " "
         THEN (IF cur = <<>> THEN {} ELSE {cur}) \cup ClassNames(Tail(class), <<>>)
         ELSE ClassNames(Tail(class), Append(cur, Head(class)))

TagSel(name) == [kind |-> "tag", arg |-> <<name>>]

\* [class*="..."]
ClassSubSel(sub) == [kind |-> "classsub", arg |-> sub]

\* .name
ClassSel(name) == [kind |-> "class", arg |-> name]

\* `name *`: any descendant of a name element
DescSel(name) == [kind |-> "desc", arg |-> <<name>>]

\* iconExclusions of generateCSS
iconExclusions ==
    << TagSel("i"),
       ClassSubSel(<<"icon">>), ClassSubSel(<<"Icon">>),
       ClassSubSel(<<"fa", "-">>), ClassSubSel(<<"fa", " ">>),
       ClassSubSel(<<"fa", "s", " ">>), ClassSubSel(<<"fa", "r", " ">>),
       ClassSubSel(<<"fa", "b", " ">>),
       ClassSubSel(<<"material", "-", "icon", "s">>),
       ClassSubSel(<<"glyph", "icon">>), ClassSubSel(<<"emoji">>),
       TagSel("svg"), DescSel("svg"),
       TagSel("code"), TagSel("pre"), TagSel("kbd"),
       ClassSel(<<"mono">>), ClassSubSel(<<"mono", "space">>) >>

\* whether a simple selector matches an element
Matches(sel, el) ==
    CASE sel.kind = "tag"      -> el.tag = sel.arg[1]
      [] sel.kind = "classsub" -> Contains(el.class, sel.arg)
      [] sel.kind = "class"    -> sel.arg \in ClassNames(el.class, <<>>)
      [] sel.kind = "desc"     -> el.inSvg /\ sel.arg[1] = "svg"

\* whether `*:not(s1):not(s2)...` selects an element
Selects(notSelectors, el) ==
    \A k \in 1..Len(notSelectors) : ~Matches(notSelectors[k], el)

\* one declaration of a rule
Decl(prop, value) == [prop |-> prop, value |-> <<value>>, important |-> TRUE]

\* a renderer that always writes the font-weight declaration
fontWeightCSS_Always(styles) == <<Decl("font-weight", styles.fontWeight)>>

\* fontWeightCSS of generateCSS
fontWeightCSS(styles) ==
    IF styles.fontWeight = "inherit" THEN <<>>
    ELSE <<Decl("font-weight", styles.fontWeight)>>

\* ((styles.fontSizeScale || 1) * 100).toFixed(0), the scale in hundredths
fontSizePercent(styles) ==
    IF styles.fontSizeScale = 0 THEN 100 ELSE styles.fontSizeScale

\* generateCSS(settings): the html rule and the rule for `*:not(...)...`
generateCSS(settings) ==
    [html |-> <<Decl("font-size", fontSizePercent(settings.styles))>>,
     notSelectors |-> iconExclusions,
     all |-> << Decl("font-family", settings.fontFamily),
                Decl("line-height", settings.styles.lineHeight),
                Decl("letter-spacing", settings.styles.letterSpacing),
                Decl("word-spacing", settings.styles.wordSpacing) >>
             \o fontWeightCSS(settings.styles)]

\* removeStyles(): getElementById finds the first element of the id, which
\* is removed; els are the elements of the document with the id STYLE_ID
removeStyles(els) == IF els = <<>> THEN <<>> ELSE Tail(els)

\* an injectStyles that does not remove the element already there
injectStyles_NoRemove(els, settings) == Append(els, generateCSS(settings))

\* injectStyles(settings)
injectStyles(els, settings) == Append(removeStyles(els), generateCSS(settings))

\* window.location.hostname of the page the content script runs in
getCurrentDomain == "example.com"

\* ------------------------------------------------------------------ state
VARIABLES
    store,      \* chrome.storage.sync: a record over the keys that are stored
    storeUp,    \* whether chrome.storage.sync calls resolve (TRUE) or reject
    pc,         \* per context: "idle", or "setStorage" while its write is pending
    op,         \* per context: the store function called last and its arguments
    data,       \* per context: the argument of the pending setStorage call
    ret,        \* per context: the promise of the call
    lastSet,    \* history: per domain, the settings last stored by a completed
                \* setSiteSettings (Null after a completed removeSite)
    notes,      \* chrome.storage.onChanged events on their way to the page: the
                \* changed keys of each
    styleEls,   \* the page: the contents of the elements with the id STYLE_ID
    observer,   \* the page: "unloaded" before the content script has run,
                \* "waiting" for DOMContentLoaded, "on" once observing
    isApplied,  \* the page: isApplied of setupMutationObserver
    batch,      \* the page: mutation records are queued for the observer
    runs,       \* the page: the loadAndApplySettings runs in flight, oldest first
    msgs,       \* APPLY_STYLES messages on their way to the page, oldest first
    applied,    \* history: the settings of the APPLY_STYLES message processed
                \* last with no other change of styleEls since, and whether
                \* the message before it carried the same settings
    lastRun,    \* history: how the run that completed last ended: "injected",
                \* "replaced", "removed", "absent" (nothing to remove), "logged"
    popup,      \* the popup: its stage and its React state
    handler,    \* per context: the UI handler that awaits the store call
    message,    \* the options page: its status message
    optStorage, \* the options page: its React state `storage`
    unhandled,  \* whether a promise of a UI handler has rejected uncaught
    probe       \* an element of the page

storeVars == <<store, storeUp, pc, op, data, ret, lastSet>>

pageVars == <<styleEls, observer, isApplied, batch, runs, msgs, applied, lastRun, probe>>

uiVars == <<popup, handler, message, optStorage, unhandled>>

vars == <<storeVars, notes, pageVars, uiVars>>

NoOp == [name |-> "none", args |-> <<>>]

NoData == <<>>

Pending(v) == [status |-> "pending", value |-> <<v>>]

Fulfilled(v) == [status |-> "fulfilled", value |-> <<v>>]

Rejected == [status |-> "rejected", value |-> <<>>]

Undefined == "undefined"

\* no handler awaits a store call
NoHandler == [name |-> "none", args |-> <<>>, stage |-> "done"]

\* context c runs no UI handler: the last one has returned or thrown
Free(c) == handler[c].stage \in {"done", "threw"}

\* the popup before it is opened (url and extractedDomain are tab.url and
\* the local of initPopup): useState(null), useState(null),
\* useState({favoriteFonts: [], siteSettings: {}, presets: []}), useState(false)
PopupClosed ==
    [stage |-> "closed", url |-> <<>>, extractedDomain |-> Null,
     domain |-> Null, settings |-> Null,
     storage |-> DEFAULT_STORAGE, isInvalidPage |-> FALSE]

\* a span without classes, outside any svg
PlainElement == [tag |-> "span", class |-> <<>>, inSvg |-> FALSE]

\* the page before the content script has run
InitPageVars ==
    /\ notes = <<>>
    /\ styleEls = <<>>
    /\ observer = "unloaded"
    /\ isApplied = FALSE
    /\ batch = FALSE
    /\ runs = <<>>
    /\ msgs = <<>>
    /\ applied = <<>>
    /\ lastRun = "none"
    /\ probe = PlainElement

\* the popup and the options page before any of their handlers has run
InitUi ==
    /\ popup = PopupClosed
    /\ handler = [c \in Ctx |-> NoHandler]
    /\ message = ""
    /\ optStorage = DEFAULT_STORAGE
    /\ unhandled = FALSE

\* no store call has been made
InitCalls ==
    /\ storeUp = TRUE
    /\ pc = [c \in Ctx |-> "idle"]
    /\ op = [c \in Ctx |-> NoOp]
    /\ data = [c \in Ctx |-> NoData]
    /\ ret = [c \in Ctx |-> Fulfilled(Undefined)]
    /\ lastSet = [d \in Domains |-> Null]

Init ==
    /\ store = <<>>
    /\ InitCalls
    /\ InitPageVars
    /\ InitUi

\* a preset as addPreset stores it
Preset1 == NewPreset(generateId(0, 0), <<"a">>, FontAA, HeavyStyles)

\* the user has registered a font and saved a preset; no site yet
InitPage ==
    /\ store = [favoriteFonts |-> <<FontA>>, presets |-> <<Preset1>>]
    /\ InitCalls
    /\ InitPageVars
    /\ InitUi

\* ------------------------------------------------- how a call continues
\* the call of context c returns v
Resolve(c, v) ==
    /\ pc' = [pc EXCEPT ![c] = "idle"]
    /\ data' = [data EXCEPT ![c] = NoData]
    /\ ret' = [ret EXCEPT ![c] = Fulfilled(v)]

\* a chrome.storage.sync call of context c rejects; no store function
\* catches the rejection, so the promise of the call rejects
Reject(c) ==
    /\ pc' = [pc EXCEPT ![c] = "idle"]
    /\ data' = [data EXCEPT ![c] = NoData]
    /\ ret' = [ret EXCEPT ![c] = Rejected]

\* the call of context c is suspended at `await setStorage(d)` and will
\* return v once the write has completed
AwaitSetStorage(c, d, v) ==
    /\ pc' = [pc EXCEPT ![c] = "setStorage"]
    /\ data' = [data EXCEPT ![c] = d]
    /\ ret' = [ret EXCEPT ![c] = Pending(v)]

\* context c calls the store function name with args
Call(c, name, args) ==
    /\ pc[c] = "idle"
    /\ op' = [op EXCEPT ![c] = [name |-> name, args |-> args]]

\* --------------------------------------------------------------- actions
\* getStorage called on its own
CallGetStorage(c) ==
    /\ Call(c, "getStorage", <<>>)
    /\ IF storeUp THEN Resolve(c, getStorage(store)) ELSE Reject(c)
    /\ UNCHANGED <<store, storeUp, lastSet, notes>>

\* addFavoriteFont looking for the untrimmed name among the stored fonts
addFavoriteFont_RawCheck(c, fontName) ==
    /\ Call(c, "addFavoriteFont", <<fontName>>)
    /\ IF ~storeUp THEN Reject(c)
       ELSE LET storage == getStorage(store)
                trimmedName == Trim(fontName)
            IN  IF trimmedName = <<>> \/ Includes(storage.favoriteFonts, fontName)
                THEN Resolve(c, FALSE)
                ELSE AwaitSetStorage(c,
                        [favoriteFonts |-> Append(storage.favoriteFonts, trimmedName)],
                        TRUE)
    /\ UNCHANGED <<store, storeUp, lastSet, notes>>

\* addFavoriteFont up to its return or its await of setStorage
addFavoriteFont(c, fontName) ==
    /\ Call(c, "addFavoriteFont", <<fontName>>)
    /\ IF ~storeUp THEN Reject(c)
       ELSE LET storage == getStorage(store)
                trimmedName == Trim(fontName)
            IN  IF trimmedName = <<>> \/ Includes(storage.favoriteFonts, trimmedName)
                THEN Resolve(c, FALSE)
                ELSE AwaitSetStorage(c,
                        [favoriteFonts |-> Append(storage.favoriteFonts, trimmedName)],
                        TRUE)
    /\ UNCHANGED <<store, storeUp, lastSet, notes>>

\* removeFavoriteFont up to its await of setStorage
removeFavoriteFont(c, fontName) ==
    /\ Call(c, "removeFavoriteFont", <<fontName>>)
    /\ IF ~storeUp THEN Reject(c)
       ELSE LET storage == getStorage(store)
            IN  AwaitSetStorage(c,
                    [favoriteFonts |-> FilterFont(storage.favoriteFonts, fontName)],
                    Undefined)
    /\ UNCHANGED <<store, storeUp, lastSet, notes>>

getSiteSettings(c, domain) ==
    /\ Call(c, "getSiteSettings", <<domain>>)
    /\ IF ~storeUp THEN Reject(c)
       ELSE LET storage == getStorage(store)
            IN  Resolve(c, SiteLookup(storage.siteSettings, domain))
    /\ UNCHANGED <<store, storeUp, lastSet, notes>>

\* a setSiteSettings that writes back the whole document it has read
setSiteSettings_WholeDocument(c, domain, settings) ==
    /\ Call(c, "setSiteSettings", <<domain, settings>>)
    /\ IF ~storeUp THEN Reject(c)
       ELSE LET storage == getStorage(store)
            IN  AwaitSetStorage(c,
                    [storage EXCEPT !.siteSettings =
                        SiteAssign(storage.siteSettings, domain, settings)],
                    Undefined)
    /\ UNCHANGED <<store, storeUp, lastSet, notes>>

\* setSiteSettings up to its await of setStorage
setSiteSettings(c, domain, settings) ==
    /\ Call(c, "setSiteSettings", <<domain, settings>>)
    /\ IF ~storeUp THEN Reject(c)
       ELSE LET storage == getStorage(store)
            IN  AwaitSetStorage(c,
                    [siteSettings |-> SiteAssign(storage.siteSettings, domain, settings)],
                    Undefined)
    /\ UNCHANGED <<store, storeUp, lastSet, notes>>

\* removeSite up to its await of setStorage
removeSite(c, domain) ==
    /\ Call(c, "removeSite", <<domain>>)
    /\ IF ~storeUp THEN Reject(c)
       ELSE LET storage == getStorage(store)
            IN  AwaitSetStorage(c,
                    [siteSettings |-> SiteDelete(storage.siteSettings, domain)],
                    Undefined)
    /\ UNCHANGED <<store, storeUp, lastSet, notes>>

\* addPreset up to its await of setStorage; time and rnd are what Date.now()
\* and Math.random() give
addPreset(c, name, fontFamily, styles, time, rnd) ==
    /\ Call(c, "addPreset", <<name, fontFamily, styles>>)
    /\ IF ~storeUp THEN Reject(c)
       ELSE LET storage == getStorage(store)
                newPreset == NewPreset(generateId(time, rnd), name, fontFamily, styles)
            IN  /\ Len(storage.presets) < MaxPresets
                /\ AwaitSetStorage(c,
                        [presets |-> Append(storage.presets, newPreset)],
                        newPreset)
    /\ UNCHANGED <<store, storeUp, lastSet, notes>>

\* removePreset up to its await of setStorage
removePreset(c, presetId) ==
    /\ Call(c, "removePreset", <<presetId>>)
    /\ IF ~storeUp THEN Reject(c)
       ELSE LET storage == getStorage(store)
            IN  AwaitSetStorage(c,
                    [presets |-> FilterPreset(storage.presets, presetId)],
                    Undefined)
    /\ UNCHANGED <<store, storeUp, lastSet, notes>>

\* updatePreset up to its return or its await of setStorage
updatePreset(c, presetId, name, fontFamily, styles) ==
    /\ Call(c, "updatePreset", <<presetId, name, fontFamily, styles>>)
    /\ IF ~storeUp THEN Reject(c)
       ELSE LET storage == getStorage(store)
                index == FindIndex(storage.presets, presetId)
            IN  IF index # 0
                THEN AwaitSetStorage(c,
                        [presets |-> [storage.presets EXCEPT ![index] =
                            UpdatedPreset(storage.presets[index], name,
                                          fontFamily, styles)]],
                        Undefined)
                ELSE Resolve(c, Undefined)
    /\ UNCHANGED <<store, storeUp, lastSet, notes>>

\* the keys of a chrome.storage.onChanged event: those of the written keys
\* whose stored value the write changes
ChangedKeys(s, d) ==
    {k \in DOMAIN d : k \notin DOMAIN s \/ s[k] # d[k]}

\* the events on their way to the page after a write: one more when the
\* write changes a key and the page has its listener
Notify(queue, changes, obs) ==
    IF changes # {} /\ obs # "unloaded" THEN Append(queue, changes) ELSE queue

\* what a completed write of context c leaves in the history variable
LastSetAfter(c) ==
    IF op[c].name = "setSiteSettings"
    THEN [lastSet EXCEPT ![op[c].args[1]] = Some(op[c].args[2])]
    ELSE IF op[c].name = "removeSite"
    THEN [lastSet EXCEPT ![op[c].args[1]] = Null]
    ELSE lastSet

\* the pending chrome.storage.sync.set of context c takes effect (or
\* rejects) and the suspended call returns
setStorage(c) ==
    /\ pc[c] = "setStorage"
    /\ IF storeUp
       THEN /\ store' = ChromeSet(store, data[c])
            /\ lastSet' = LastSetAfter(c)
            /\ Resolve(c, ret[c].value[1])
            /\ notes' = Notify(notes, ChangedKeys(store, data[c]), observer)
            /\ Len(notes') <= MaxInFlight
       ELSE /\ Reject(c)
            /\ UNCHANGED <<store, lastSet, notes>>
    /\ UNCHANGED <<storeUp, op, pageVars, uiVars>>

\* chrome.storage.sync becomes unreachable / reachable again
StoreDown ==
    /\ storeUp
    /\ storeUp' = FALSE
    /\ UNCHANGED <<store, pc, op, data, ret, lastSet, notes, pageVars, uiVars>>

StoreUp ==
    /\ ~storeUp
    /\ storeUp' = TRUE
    /\ UNCHANGED <<store, pc, op, data, ret, lastSet, notes, pageVars, uiVars>>

\* ------------------------------------------------------ the page applier
\* a call of loadAndApplySettings: the run awaits chrome.storage.sync.get
StartRun(rs) == Append(rs, [stage |-> "get", site |-> Null])

\* the observer gets a record when a node is added or removed while it
\* observes
Observe(changed) == batch' = (batch \/ (observer = "on" /\ changed))

\* the history of the applies done in a row: the settings of the last
\* message, and whether the message before it carried the same
Applied(hist, settings) ==
    <<[settings |-> settings,
       twice |-> (hist # <<>> /\ hist[1].settings = settings)]>>

\* init(): the content script runs in the page; the listeners are in place,
\* a first run starts, and the observer is set up now or on DOMContentLoaded
\* (loading: document.readyState === 'loading')
init(loading) ==
    /\ observer = "unloaded"
    /\ runs' = StartRun(runs)
    /\ observer' = IF loading THEN "waiting" ELSE "on"
    /\ isApplied' = (styleEls # <<>>)
    /\ UNCHANGED <<storeVars, notes, styleEls, batch, msgs, applied, lastRun,
                   probe, uiVars>>

\* DOMContentLoaded: setupMutationObserver
setupMutationObserver ==
    /\ observer = "waiting"
    /\ observer' = "on"
    /\ isApplied' = (styleEls # <<>>)
    /\ UNCHANGED <<storeVars, notes, styleEls, batch, runs, msgs, applied,
                   lastRun, probe, uiVars>>

\* the first run that awaits its chrome.storage.sync.get
FirstGet(rs) ==
    CHOOSE i \in 1..Len(rs) :
        rs[i].stage = "get" /\ \A j \in 1..(i - 1) : rs[j].stage # "get"

\* chrome.storage.sync.get of the oldest waiting run reads the store, or
\* rejects
LoadRead ==
    /\ \E i \in 1..Len(runs) : runs[i].stage = "get"
    /\ LET i == FirstGet(runs)
           result == ChromeGet(store, [favoriteFonts |-> <<>>, siteSettings |-> <<>>])
       IN  runs' = [runs EXCEPT ![i] =
                IF storeUp
                THEN [stage |-> "got",
                      site |-> SiteLookup(result.siteSettings, getCurrentDomain)]
                ELSE [stage |-> "failed", site |-> Null]]
    /\ UNCHANGED <<storeVars, notes, styleEls, observer, isApplied, batch, msgs,
                   applied, lastRun, probe, uiVars>>

\* a run that injects whenever the site has settings, active or not
loadAndApplySettings_IgnoreActive ==
    /\ runs # <<>>
    /\ Head(runs).stage # "get"
    /\ LET run == Head(runs)
           siteSettings == run.site
       IN  IF run.stage = "failed"
           THEN /\ lastRun' = "logged"
                /\ UNCHANGED <<styleEls, batch, applied>>
           ELSE IF siteSettings # Null
           THEN /\ styleEls' = injectStyles(styleEls, siteSettings[1])
                /\ Observe(TRUE)
                /\ lastRun' = IF styleEls = <<>> THEN "injected" ELSE "replaced"
                /\ applied' = <<>>
           ELSE /\ styleEls' = removeStyles(styleEls)
                /\ Observe(styleEls # <<>>)
                /\ lastRun' = IF styleEls = <<>> THEN "absent" ELSE "removed"
                /\ applied' = <<>>
    /\ runs' = Tail(runs)
    /\ UNCHANGED <<storeVars, notes, observer, isApplied, msgs, probe, uiVars>>

\* loadAndApplySettings after its await: inject, remove, or log the error
loadAndApplySettings ==
    /\ runs # <<>>
    /\ Head(runs).stage # "get"
    /\ LET run == Head(runs)
           siteSettings == run.site
       IN  IF run.stage = "failed"
           THEN /\ lastRun' = "logged"
                /\ UNCHANGED <<styleEls, batch, applied>>
           ELSE IF siteSettings # Null /\ siteSettings[1].isActive
           THEN /\ styleEls' = injectStyles(styleEls, siteSettings[1])
                /\ Observe(TRUE)
                /\ lastRun' = IF styleEls = <<>> THEN "injected" ELSE "replaced"
                /\ applied' = <<>>
           ELSE /\ styleEls' = removeStyles(styleEls)
                /\ Observe(styleEls # <<>>)
                /\ lastRun' = IF styleEls = <<>> THEN "absent" ELSE "removed"
                /\ applied' = <<>>
    /\ runs' = Tail(runs)
    /\ UNCHANGED <<storeVars, notes, observer, isApplied, msgs, probe, uiVars>>

\* the chrome.runtime.onMessage listener gets the oldest message
onMessage ==
    /\ msgs # <<>>
    /\ LET msg == Head(msgs)
       IN  /\ IF msg.settings # Null
              THEN /\ styleEls' = injectStyles(styleEls, msg.settings[1])
                   /\ Observe(TRUE)
              ELSE /\ styleEls' = removeStyles(styleEls)
                   /\ Observe(styleEls # <<>>)
           /\ applied' = Applied(applied, msg.settings)
    /\ msgs' = Tail(msgs)
    /\ UNCHANGED <<storeVars, notes, observer, isApplied, runs, lastRun, probe,
                   uiVars>>

\* a listener that starts a run on every event
onChanged_AnyKey ==
    /\ notes # <<>>
    /\ runs' = StartRun(runs)
    /\ Len(runs') <= MaxInFlight
    /\ notes' = Tail(notes)
    /\ UNCHANGED <<storeVars, styleEls, observer, isApplied, batch, msgs, applied,
                   lastRun, probe, uiVars>>

\* the chrome.storage.onChanged listener gets the oldest event
onChanged ==
    /\ notes # <<>>
    /\ LET changes == Head(notes)
       IN  runs' = IF "siteSettings" \in changes THEN StartRun(runs) ELSE runs
    /\ Len(runs') <= MaxInFlight
    /\ notes' = Tail(notes)
    /\ UNCHANGED <<storeVars, styleEls, observer, isApplied, batch, msgs, applied,
                   lastRun, probe, uiVars>>

\* a callback that re-runs whenever it finds no element
MutationCallback_WheneverAbsent ==
    /\ batch
    /\ LET styleExists == (styleEls # <<>>)
       IN  /\ runs' = IF ~styleExists THEN StartRun(runs) ELSE runs
           /\ isApplied' = styleExists
    /\ Len(runs') <= MaxInFlight
    /\ batch' = FALSE
    /\ UNCHANGED <<storeVars, notes, styleEls, observer, msgs, applied, lastRun,
                   probe, uiVars>>

\* the MutationObserver callback gets the queued records
MutationCallback ==
    /\ batch
    /\ LET styleExists == (styleEls # <<>>)
       IN  /\ runs' = IF isApplied /\ ~styleExists THEN StartRun(runs) ELSE runs
           /\ isApplied' = styleExists
    /\ Len(runs') <= MaxInFlight
    /\ batch' = FALSE
    /\ UNCHANGED <<storeVars, notes, styleEls, observer, msgs, applied, lastRun,
                   probe, uiVars>>

\* a script of the page removes the injected element
PageRemovesStyle ==
    /\ styleEls # <<>>
    /\ styleEls' = <<>>
    /\ Observe(TRUE)
    /\ applied' = <<>>
    /\ UNCHANGED <<storeVars, notes, observer, isApplied, runs, msgs, lastRun,
                   probe, uiVars>>

\* ------------------------------------------------------------- the popup
\* initPopup up to its await of getStorage: url is the URL of the active tab
initPopup(url) ==
    /\ popup.stage = "closed"
    /\ LET extractedDomain == IF url = <<>> THEN Null ELSE extractDomain(url)
       IN  popup' =
             IF url = <<>> \/ extractedDomain = Null \/ ~Truthy(extractedDomain[1])
             THEN [popup EXCEPT !.stage = "invalid", !.url = url,
                                !.extractedDomain = extractedDomain,
                                !.isInvalidPage = TRUE]
             ELSE [popup EXCEPT !.stage = "getStorage", !.url = url,
                                !.extractedDomain = extractedDomain,
                                !.domain = extractedDomain]
    /\ UNCHANGED <<storeVars, notes, pageVars, handler, message, optStorage,
                   unhandled>>

\* initPopup: getStorage returns, setStorageState
initPopupStorage ==
    /\ popup.stage = "getStorage"
    /\ IF storeUp
       THEN /\ popup' = [popup EXCEPT !.stage = "getSiteSettings",
                                      !.storage = getStorage(store)]
            /\ UNCHANGED unhandled
       ELSE /\ popup' = [popup EXCEPT !.stage = "failed"]
            /\ unhandled' = TRUE
    /\ UNCHANGED <<storeVars, notes, pageVars, handler, message, optStorage>>

\* initPopup: getSiteSettings returns, setSettings
initPopupSettings ==
    /\ popup.stage = "getSiteSettings"
    /\ IF storeUp
       THEN /\ popup' = [popup EXCEPT !.stage = "ready",
                            !.settings = SiteLookup(getStorage(store).siteSettings,
                                                    popup.domain[1])]
            /\ UNCHANGED unhandled
       ELSE /\ popup' = [popup EXCEPT !.stage = "failed"]
            /\ unhandled' = TRUE
    /\ UNCHANGED <<storeVars, notes, pageVars, handler, message, optStorage>>

\* a popup handler from its guard to its await of setSiteSettings
PopupEdit(c, name, newSettings) ==
    /\ Free(c)
    /\ popup.domain # Null
    /\ setSiteSettings(c, popup.domain[1], newSettings)
    /\ handler' = [handler EXCEPT ![c] =
                      [name |-> name, args |-> <<popup.domain[1], newSettings>>,
                       stage |-> "await"]]
    /\ UNCHANGED <<pageVars, popup, message, optStorage, unhandled>>

handleRegisterSite(c) ==
    /\ Len(popup.storage.favoriteFonts) # 0
    /\ PopupEdit(c, "handleRegisterSite",
                 createDefaultSiteSettings(popup.storage.favoriteFonts[1]))

handleToggleActive(c) ==
    /\ popup.settings # Null
    /\ LET settings == popup.settings[1]
       IN  PopupEdit(c, "handleToggleActive",
                     [settings EXCEPT !.isActive = ~settings.isActive])

\* a handleFontChange that starts from the default settings of the font
handleFontChange_FromDefault(c, fontFamily) ==
    /\ popup.settings # Null
    /\ PopupEdit(c, "handleFontChange", createDefaultSiteSettings(fontFamily))

handleFontChange(c, fontFamily) ==
    /\ popup.settings # Null
    /\ LET settings == popup.settings[1]
       IN  PopupEdit(c, "handleFontChange",
                     [settings EXCEPT !.fontFamily = fontFamily])

handleStyleChange(c, key, value) ==
    /\ popup.settings # Null
    /\ LET settings == popup.settings[1]
       IN  PopupEdit(c, "handleStyleChange",
                     [settings EXCEPT !.styles = [settings.styles EXCEPT ![key] = value]])

\* a handleApplyPreset that also activates the site
handleApplyPreset_Activate(c, preset) ==
    /\ popup.settings # Null
    /\ LET settings == popup.settings[1]
       IN  PopupEdit(c, "handleApplyPreset",
                     [settings EXCEPT !.isActive = TRUE,
                                      !.fontFamily = preset.fontFamily,
                                      !.styles = preset.styles])

handleApplyPreset(c, preset) ==
    /\ popup.settings # Null
    /\ LET settings == popup.settings[1]
       IN  PopupEdit(c, "handleApplyPreset",
                     [settings EXCEPT !.fontFamily = preset.fontFamily,
                                      !.styles = preset.styles])

\* an applyStyles that sends the settings whether active or not
applyStyles_AlwaysSettings(domain, newSettings) ==
    [action |-> "APPLY_STYLES", domain |-> domain, settings |-> Some(newSettings)]

\* the message applyStyles builds
applyStyles(domain, newSettings) ==
    [action |-> "APPLY_STYLES", domain |-> domain,
     settings |-> IF newSettings.isActive THEN Some(newSettings) ELSE Null]

PopupHandlers ==
    {"handleRegisterSite", "handleToggleActive", "handleFontChange",
     "handleStyleChange", "handleApplyPreset"}

\* a popup handler after its await: setSettings and applyStyles; the
\* message reaches the tab when the content script listens there
PopupEditDone(c) ==
    /\ handler[c].name \in PopupHandlers
    /\ handler[c].stage = "await"
    /\ pc[c] = "idle"
    /\ IF ret[c].status = "fulfilled"
       THEN /\ popup' = [popup EXCEPT !.settings = Some(handler[c].args[2])]
            /\ msgs' = IF observer # "unloaded"
                       THEN Append(msgs, applyStyles(handler[c].args[1],
                                                     handler[c].args[2]))
                       ELSE msgs
            /\ Len(msgs') <= MaxInFlight
            /\ UNCHANGED unhandled
       ELSE /\ unhandled' = TRUE
            /\ UNCHANGED <<popup, msgs>>
    /\ handler' = [handler EXCEPT ![c] = NoHandler]
    /\ UNCHANGED <<storeVars, notes, styleEls, observer, isApplied, batch, runs,
                   applied, lastRun, probe, message, optStorage>>

\* ------------------------------------------------------ the options page
\* the handler of context c goes on to name, awaiting the store call
Handle(c, name, args) ==
    handler' = [handler EXCEPT ![c] = [name |-> name, args |-> args, stage |-> "await"]]

\* the handler of context c returns before any store call, with a message
Refuse(c, name, args, msg) ==
    /\ Free(c)
    /\ handler' = [handler EXCEPT ![c] = [name |-> name, args |-> args, stage |-> "done"]]
    /\ message' = msg
    /\ UNCHANGED <<storeVars, notes, pageVars, popup, optStorage, unhandled>>

\* handleAddFont up to its return or its await of addFavoriteFont; input is
\* manualFontInput or selectedFont
handleAddFont(c, useManualInput, input) ==
    LET fontToAdd == IF useManualInput THEN Trim(input) ELSE input
    IN  IF fontToAdd = <<>>
        THEN Refuse(c, "handleAddFont", <<useManualInput, input>>, "select or enter a font")
        ELSE /\ Free(c)
             /\ addFavoriteFont(c, fontToAdd)
             /\ Handle(c, "handleAddFont", <<useManualInput, input>>)
             /\ UNCHANGED <<pageVars, popup, message, optStorage, unhandled>>

handleRemoveFont(c, font) ==
    /\ Free(c)
    /\ removeFavoriteFont(c, font)
    /\ Handle(c, "handleRemoveFont", <<font>>)
    /\ UNCHANGED <<pageVars, popup, message, optStorage, unhandled>>

handleRemoveSite(c, domain) ==
    /\ Free(c)
    /\ removeSite(c, domain)
    /\ Handle(c, "handleRemoveSite", <<domain>>)
    /\ UNCHANGED <<pageVars, popup, message, optStorage, unhandled>>

\* a handleSavePreset without its two checks
handleSavePreset_NoChecks(c, presetName, presetFont, presetStyles, editingPreset, time, rnd) ==
    /\ Free(c)
    /\ IF editingPreset # Null
       THEN updatePreset(c, editingPreset[1].id, presetName, presetFont, presetStyles)
       ELSE addPreset(c, presetName, presetFont, presetStyles, time, rnd)
    /\ Handle(c, "handleSavePreset", <<presetName, presetFont, editingPreset>>)
    /\ UNCHANGED <<pageVars, popup, message, optStorage, unhandled>>

\* handleSavePreset up to its return or its await of updatePreset / addPreset
handleSavePreset(c, presetName, presetFont, presetStyles, editingPreset, time, rnd) ==
    IF Trim(presetName) = <<>>
    THEN Refuse(c, "handleSavePreset", <<presetName, presetFont, editingPreset>>,
                "enter a preset name")
    ELSE IF presetFont = <<>>
    THEN Refuse(c, "handleSavePreset", <<presetName, presetFont, editingPreset>>,
                "select a font")
    ELSE /\ Free(c)
         /\ IF editingPreset # Null
            THEN updatePreset(c, editingPreset[1].id, presetName, presetFont, presetStyles)
            ELSE addPreset(c, presetName, presetFont, presetStyles, time, rnd)
         /\ Handle(c, "handleSavePreset", <<presetName, presetFont, editingPreset>>)
         /\ UNCHANGED <<pageVars, popup, message, optStorage, unhandled>>

handleRemovePreset(c, presetId) ==
    /\ Free(c)
    /\ removePreset(c, presetId)
    /\ Handle(c, "handleRemovePreset", <<presetId>>)
    /\ UNCHANGED <<pageVars, popup, message, optStorage, unhandled>>

\* onChange of the preset select of a site row: domain and settings are
\* those of the row as rendered, preset is looked up in the rendered presets
onChangeSitePreset(c, domain, presetId) ==
    /\ Free(c)
    /\ domain \in DOMAIN optStorage.siteSettings
    /\ FindIndex(optStorage.presets, presetId) # 0
    /\ LET preset == optStorage.presets[FindIndex(optStorage.presets, presetId)]
           settings == optStorage.siteSettings[domain]
       IN  setSiteSettings(c, domain,
                [settings EXCEPT !.fontFamily = preset.fontFamily,
                                 !.styles = preset.styles])
    /\ Handle(c, "onChangeSitePreset", <<domain, presetId>>)
    /\ UNCHANGED <<pageVars, popup, message, optStorage, unhandled>>

OptionsHandlers ==
    {"handleAddFont", "handleRemoveFont", "handleRemoveSite", "handleSavePreset",
     "handleRemovePreset", "onChangeSitePreset"}

\* the message an options handler shows once its store call has returned v
\* ("" for none)
DoneMessage(name, args, v) ==
    CASE name = "handleAddFont" ->
            IF v = TRUE THEN "font added" ELSE "font already registered"
      [] name = "handleSavePreset" ->
            IF args[3] # Null THEN "preset updated" ELSE "preset saved"
      [] name = "onChangeSitePreset" -> "preset applied"
      [] OTHER -> ""

\* an options handler after its await: the message, and loadStorage() unless
\* handleAddFont was told false; a rejected store call ends the handler
OptionsDone(c) ==
    /\ handler[c].name \in OptionsHandlers
    /\ handler[c].stage = "await"
    /\ pc[c] = "idle"
    /\ IF ret[c].status = "fulfilled"
       THEN LET h == handler[c]
                v == ret[c].value[1]
                msg == DoneMessage(h.name, h.args, v)
            IN  /\ message' = IF msg = "" THEN message ELSE msg
                /\ handler' = [handler EXCEPT ![c].stage =
                        IF h.name = "handleAddFont" /\ v = FALSE
                        THEN "done" ELSE "loadStorage"]
                /\ UNCHANGED unhandled
       ELSE /\ handler' = [handler EXCEPT ![c].stage = "threw"]
            /\ unhandled' = TRUE
            /\ UNCHANGED message
    /\ UNCHANGED <<storeVars, notes, pageVars, popup, optStorage>>

\* loadStorage(): getStorage, then setStorageState
loadStorage(c) ==
    /\ handler[c].stage = "loadStorage"
    /\ IF storeUp
       THEN /\ optStorage' = getStorage(store)
            /\ handler' = [handler EXCEPT ![c].stage = "done"]
            /\ UNCHANGED unhandled
       ELSE /\ handler' = [handler EXCEPT ![c].stage = "threw"]
            /\ unhandled' = TRUE
            /\ UNCHANGED optStorage
    /\ UNCHANGED <<storeVars, notes, pageVars, popup, message>>

\* showMessage's timer: setMessage('')
showMessageTimeout ==
    /\ message # ""
    /\ message' = ""
    /\ UNCHANGED <<storeVars, notes, pageVars, popup, handler, optStorage, unhandled>>

\* ids a caller can name: those of generateId
PresetIds == {generateId(t, r) : t \in Times, r \in Rands}

\* ------------------------------------------------------- specifications
\* One context (the options page) issues store calls one after the other,
\* each awaited before the next; chrome.storage.sync stays reachable.
\* a store function called on its own, outside the handlers modelled here
Alone == UNCHANGED <<pageVars, uiVars>>

SeqCtx == {1}

Next ==
    \/ \E c \in SeqCtx : CallGetStorage(c) /\ Alone
    \/ \E c \in SeqCtx, n \in RawNames : addFavoriteFont(c, n) /\ Alone
    \/ \E c \in SeqCtx, n \in RawNames : removeFavoriteFont(c, n) /\ Alone
    \/ \E c \in SeqCtx, d \in Domains : getSiteSettings(c, d) /\ Alone
    \/ \E c \in SeqCtx, d \in Domains, s \in SettingsSet : setSiteSettings(c, d, s) /\ Alone
    \/ \E c \in SeqCtx, d \in Domains : removeSite(c, d) /\ Alone
    \/ \E c \in SeqCtx, a \in PresetArgs, t \in Times, r \in Rands :
            addPreset(c, a[1], a[2], a[3], t, r) /\ Alone
    \/ \E c \in SeqCtx, i \in PresetIds : removePreset(c, i) /\ Alone
    \/ \E c \in SeqCtx, i \in PresetIds, a \in PresetArgs :
            updatePreset(c, i, a[1], a[2], a[3]) /\ Alone
    \/ \E c \in SeqCtx : setStorage(c)

Spec == Init /\ [][Next]_vars

\* Two contexts read the document and add and remove favorite fonts; their
\* reads and writes interleave freely and chrome.storage.sync comes and goes.
NextFonts ==
    \/ \E c \in TwoCtx : CallGetStorage(c) /\ Alone
    \/ \E c \in TwoCtx, n \in RawNames : addFavoriteFont(c, n) /\ Alone
    \/ \E c \in TwoCtx, n \in RawNames : removeFavoriteFont(c, n) /\ Alone
    \/ \E c \in Ctx : setStorage(c)
    \/ StoreDown
    \/ StoreUp

SpecFonts == Init /\ [][NextFonts]_vars

\* Two contexts set site settings and add presets without waiting for each
\* other.
NextRace ==
    \/ \E c \in TwoCtx, d \in Domains, s \in SettingsSet : setSiteSettings(c, d, s) /\ Alone
    \/ \E c \in TwoCtx, a \in PresetArgs, t \in Times, r \in Rands :
            addPreset(c, a[1], a[2], a[3], t, r) /\ Alone
    \/ \E c \in Ctx : setStorage(c)

SpecRace == Init /\ [][NextRace]_vars

\* Three chains, none waiting for another: context 1 adds and removes
\* favorite fonts, context 2 sets and removes site settings, context 3 adds
\* and removes presets.
FieldFonts == {FontA, FontAA}

NextFields ==
    \/ \E n \in FieldFonts : addFavoriteFont(1, n) /\ Alone
    \/ removeFavoriteFont(1, FontA) /\ Alone
    \/ \E s \in SettingsSet : setSiteSettings(2, getCurrentDomain, s) /\ Alone
    \/ removeSite(2, getCurrentDomain) /\ Alone
    \/ \E a \in PresetArgs : addPreset(3, a[1], a[2], a[3], 0, 0) /\ Alone
    \/ removePreset(3, generateId(0, 0)) /\ Alone
    \/ \E c \in Ctx : setStorage(c)

SpecFields == Init /\ [][NextFields]_vars

\* The popup is opened on the page of getCurrentDomain, where the content
\* script runs; context 1 runs the popup's handlers one after the other.
PageUrls == {Href("https:", getCurrentDomain, "/a")}

StyleEdits == {<<"fontWeight", "700">>}

\* the content script from its start, with the observer set up at once
PageSteps ==
    \/ init(FALSE)
    \/ LoadRead
    \/ loadAndApplySettings
    \/ onMessage
    \/ onChanged

\* the popup from its opening
PopupSteps ==
    \/ \E url \in PageUrls : initPopup(url)
    \/ initPopupStorage
    \/ initPopupSettings
    \/ handleRegisterSite(1)
    \/ handleToggleActive(1)
    \/ \E f \in Range(popup.storage.favoriteFonts) : handleFontChange(1, f)
    \/ \E e \in StyleEdits : handleStyleChange(1, e[1], e[2])
    \/ \E p \in Range(popup.storage.presets) : handleApplyPreset(1, p)
    \/ PopupEditDone(1)

NextApply ==
    \/ PageSteps
    \/ PopupSteps
    \/ \E c \in Ctx : setStorage(c)

SpecApply == InitPage /\ [][NextApply]_vars

\* The same page while chrome.storage.sync comes and goes; the popup
\* registers the site and toggles it.
NextLoad ==
    \/ PageSteps
    \/ \E url \in PageUrls : initPopup(url)
    \/ initPopupStorage
    \/ initPopupSettings
    \/ handleRegisterSite(1)
    \/ handleToggleActive(1)
    \/ PopupEditDone(1)
    \/ \E c \in Ctx : setStorage(c)
    \/ StoreDown
    \/ StoreUp

SpecLoad == InitPage /\ [][NextLoad]_vars

\* The popup registers the site and toggles it while the options page
\* (context 2) removes the site; chrome.storage.sync stays reachable.
NextSync ==
    \/ PageSteps
    \/ \E url \in PageUrls : initPopup(url)
    \/ initPopupStorage
    \/ initPopupSettings
    \/ handleRegisterSite(1)
    \/ handleToggleActive(1)
    \/ PopupEditDone(1)
    \/ handleRemoveSite(2, getCurrentDomain)
    \/ OptionsDone(2)
    \/ loadStorage(2)
    \/ \E c \in Ctx : setStorage(c)

SpecSync == InitPage /\ [][NextSync]_vars

\* The popup is opened on a tab that shows any URL, while the content script
\* runs in the page of getCurrentDomain.
NextTab ==
    \/ PageSteps
    \/ \E url \in Urls : initPopup(url)
    \/ initPopupStorage
    \/ initPopupSettings
    \/ handleRegisterSite(1)
    \/ handleToggleActive(1)
    \/ PopupEditDone(1)
    \/ \E c \in Ctx : setStorage(c)

SpecTab == InitPage /\ [][NextTab]_vars

\* The popup is opened on a tab that shows the page of getCurrentDomain, or
\* that shows another URL and then loads the page of getCurrentDomain while
\* the popup stays open.
NextNav ==
    \/ PageSteps
    \/ \E url \in Urls :
            /\ url \in PageUrls \/ observer = "unloaded"
            /\ initPopup(url)
    \/ initPopupStorage
    \/ initPopupSettings
    \/ handleRegisterSite(1)
    \/ handleToggleActive(1)
    \/ PopupEditDone(1)
    \/ \E c \in Ctx : setStorage(c)

SpecNav == InitPage /\ [][NextNav]_vars

\* The page with its observer, set up at once or on DOMContentLoaded, and a
\* page script that removes the injected element; the popup registers the
\* site and toggles it.
NextHeal ==
    \/ \E loading \in BOOLEAN : init(loading)
    \/ setupMutationObserver
    \/ LoadRead
    \/ loadAndApplySettings
    \/ onMessage
    \/ onChanged
    \/ MutationCallback
    \/ PageRemovesStyle
    \/ \E url \in PageUrls : initPopup(url)
    \/ initPopupStorage
    \/ initPopupSettings
    \/ handleRegisterSite(1)
    \/ handleToggleActive(1)
    \/ PopupEditDone(1)
    \/ \E c \in Ctx : setStorage(c)

SpecHeal == InitPage /\ [][NextHeal]_vars

\* The same, on a page whose site is registered already (active or not) or
\* not at all when the content script starts.
WatchStores ==
    {[favoriteFonts |-> <<FontA>>, presets |-> <<Preset1>>]}
    \cup {[favoriteFonts |-> <<FontA>>, presets |-> <<Preset1>>,
           siteSettings |-> [d \in {getCurrentDomain} |->
                [createDefaultSiteSettings(FontA) EXCEPT !.isActive = a]]] :
          a \in BOOLEAN}

InitWatch ==
    /\ store \in WatchStores
    /\ InitCalls
    /\ InitPageVars
    /\ InitUi

SpecWatch == InitWatch /\ [][NextHeal]_vars

\* The page of a registered, active site after its load (the first run has
\* injected the element and the observer has seen it), while the options
\* page (context 2) adds and removes fonts, removes the preset, applies the
\* preset to the site and removes the site.
LoadedSettings == createDefaultSiteSettings(FontA)

InitLoaded ==
    /\ store = [favoriteFonts |-> <<FontA>>, presets |-> <<Preset1>>,
                siteSettings |-> [d \in {getCurrentDomain} |-> LoadedSettings]]
    /\ InitCalls
    /\ notes = <<>>
    /\ styleEls = <<generateCSS(LoadedSettings)>>
    /\ observer = "on"
    /\ isApplied = TRUE
    /\ batch = FALSE
    /\ runs = <<>>
    /\ msgs = <<>>
    /\ applied = <<>>
    /\ lastRun = "injected"
    /\ probe = PlainElement
    /\ InitUi

NextNotify ==
    \/ LoadRead
    \/ loadAndApplySettings
    \/ onChanged
    \/ MutationCallback
    \/ handleAddFont(2, FALSE, FontAA)
    \/ handleRemoveFont(2, FontA)
    \/ handleRemovePreset(2, Preset1.id)
    \/ onChangeSitePreset(2, getCurrentDomain, Preset1.id)
    \/ handleRemoveSite(2, getCurrentDomain)
    \/ OptionsDone(2)
    \/ loadStorage(2)
    \/ \E c \in Ctx : setStorage(c)

SpecNotify == InitLoaded /\ [][NextNotify]_vars

\* A registered site is edited from the popup (context 1) and from the
\* options page (context 2), which is open and has loaded the document; no
\* content script runs in a tab.
InitRegistered ==
    /\ store = [favoriteFonts |-> <<FontA, FontAA>>, presets |-> <<Preset1>>,
                siteSettings |-> [d \in {getCurrentDomain} |-> LoadedSettings]]
    /\ InitCalls
    /\ InitPageVars
    /\ popup = PopupClosed
    /\ handler = [c \in Ctx |-> NoHandler]
    /\ message = ""
    /\ optStorage = getStorage(store)
    /\ unhandled = FALSE

NextEdit ==
    \/ \E url \in PageUrls : initPopup(url)
    \/ initPopupStorage
    \/ initPopupSettings
    \/ handleToggleActive(1)
    \/ \E f \in Range(popup.storage.favoriteFonts) : handleFontChange(1, f)
    \/ \E e \in StyleEdits : handleStyleChange(1, e[1], e[2])
    \/ \E p \in Range(popup.storage.presets) : handleApplyPreset(1, p)
    \/ PopupEditDone(1)
    \/ \E i \in PresetIds : onChangeSitePreset(2, getCurrentDomain, i)
    \/ OptionsDone(2)
    \/ loadStorage(2)
    \/ \E c \in Ctx : setStorage(c)

SpecEdit == InitRegistered /\ [][NextEdit]_vars

\* The popup of a registered site, its handlers in two chains that do not
\* wait for each other: chain 1 toggles the site, chain 3 changes the font,
\* a style or applies the preset.
NextQuick ==
    \/ \E url \in PageUrls : initPopup(url)
    \/ initPopupStorage
    \/ initPopupSettings
    \/ handleToggleActive(1)
    \/ \E f \in Range(popup.storage.favoriteFonts) : handleFontChange(3, f)
    \/ \E e \in StyleEdits : handleStyleChange(3, e[1], e[2])
    \/ \E p \in Range(popup.storage.presets) : handleApplyPreset(3, p)
    \/ \E c \in {1, 3} : PopupEditDone(c)
    \/ \E c \in Ctx : setStorage(c)

SpecQuick == InitRegistered /\ [][NextQuick]_vars

\* The options page (context 1): fonts are added and presets saved, each
\* handler started when the one before has ended; chrome.storage.sync
\* comes and goes.
\* what the font select or the manual input holds
FontInputs == {<<>>, <<" ">>, <<"a">>, <<"a", " ">>}

PresetNames == {<<>>, <<" ">>, <<" ", "a">>}

PresetFonts == {<<>>, FontA}

\* the preset being edited: none, or one of the presets the page shows
EditingPresets == {Null} \cup {Some(p) : p \in Range(optStorage.presets)}

NextOptions ==
    \/ \E m \in BOOLEAN, n \in FontInputs : handleAddFont(1, m, n)
    \/ \E n \in PresetNames, f \in PresetFonts, e \in EditingPresets :
            handleSavePreset(1, n, f, DEFAULT_SITE_STYLES, e, 0, 0)
    \/ OptionsDone(1)
    \/ loadStorage(1)
    \/ \E c \in SeqCtx : setStorage(c)
    \/ showMessageTimeout
    \/ StoreDown
    \/ StoreUp

SpecOptions == Init /\ [][NextOptions]_vars

\* A page of a site with active settings loads; one of its elements is the
\* probe.
RenderSettings ==
    {createDefaultSiteSettings(FontA),
     [isActive |-> TRUE, fontFamily |-> FontAA, styles |-> BoldStyles]}

InitRender ==
    /\ \E s \in RenderSettings :
            store = [favoriteFonts |-> <<FontA, FontAA>>,
                     siteSettings |-> [d \in {getCurrentDomain} |-> s]]
    /\ InitCalls
    /\ notes = <<>>
    /\ styleEls = <<>>
    /\ observer = "unloaded"
    /\ isApplied = FALSE
    /\ batch = FALSE
    /\ runs = <<>>
    /\ msgs = <<>>
    /\ applied = <<>>
    /\ lastRun = "none"
    /\ probe \in Elements
    /\ InitUi

NextRender ==
    \/ init(FALSE)
    \/ LoadRead
    \/ loadAndApplySettings

SpecRender == InitRender /\ [][NextRender]_vars

\* ------------------------------------------------ vocabulary of the claims
\* the persisted document, as getStorage presents it
Doc == getStorage(store)

\* the step in which context c calls the store function name (and reads)
CallStep(c, name) ==
    /\ pc[c] = "idle"
    /\ op'[c].name = name
    /\ <<pc[c], op[c], ret[c]>> # <<pc'[c], op'[c], ret'[c]>>

\* the step in which the pending write of context c's call of name ends
DoneStep(c, name) ==
    /\ pc[c] = "setStorage"
    /\ pc'[c] = "idle"
    /\ op[c].name = name

\* context c is idle after its call of name has returned
Returned(c, name) ==
    /\ pc[c] = "idle"
    /\ op[c].name = name
    /\ ret[c].status = "fulfilled"

\* ---------------------------------------------------------------- C1
\* C1: with the store reachable, addFavoriteFont(name) returns false and
\* leaves the store as it is when the trimmed name is empty or already
\* among favoriteFonts; otherwise its write appends the trimmed name at the
\* end of favoriteFonts, touches nothing else, and it returns true.
C1_AddFavoriteFont ==
    [][\A c \in Ctx :
        /\ (CallStep(c, "addFavoriteFont") /\ storeUp) =>
              LET name == op'[c].args[1]
                  soft == \/ \A i \in 1..Len(name) : name[i] = " "
                          \/ \E i \in 1..Len(Doc.favoriteFonts) :
                                Doc.favoriteFonts[i] = Trim(name)
              IN  /\ store' = store
                  /\ soft => (pc'[c] = "idle" /\ ret'[c] = Fulfilled(FALSE))
                  /\ ~soft => pc'[c] = "setStorage"
        /\ (DoneStep(c, "addFavoriteFont") /\ storeUp) =>
              /\ ret'[c] = Fulfilled(TRUE)
              /\ Doc'.favoriteFonts =
                    Append(Doc.favoriteFonts, Trim(op[c].args[1]))
              /\ Doc'.siteSettings = Doc.siteSettings
              /\ Doc'.presets = Doc.presets
      ]_vars

\* a padded name has been added, trimmed, behind another font
C1_Witness_Added ==
    /\ Returned(1, "addFavoriteFont")
    /\ ret[1].value[1] = TRUE
    /\ op[1].args[1] # Trim(op[1].args[1])
    /\ Len(Doc.favoriteFonts) = 2
    /\ Doc.favoriteFonts[2] = Trim(op[1].args[1])

\* ---------------------------------------------------------------- C2
\* C2: starting from the empty store, favoriteFonts never holds a value
\* twice, whatever add/remove calls two contexts interleave.
C2_NoDuplicateFonts ==
    \A i, j \in 1..Len(Doc.favoriteFonts) :
        i # j => Doc.favoriteFonts[i] # Doc.favoriteFonts[j]

\* both contexts have added the same font and both were told true
C2_Witness_AddedTwice ==
    /\ Returned(1, "addFavoriteFont") /\ ret[1].value[1] = TRUE
    /\ Returned(2, "addFavoriteFont") /\ ret[2].value[1] = TRUE
    /\ Trim(op[1].args[1]) = Trim(op[2].args[1])
    /\ Trim(op[1].args[1]) \in Range(Doc.favoriteFonts)

C4_SetSiteSettingsFrame ==
    [][\A c \in SeqCtx :
        (DoneStep(c, "setSiteSettings") /\ storeUp) =>
            LET D == op[c].args[1]
                s == op[c].args[2]
            IN  /\ DOMAIN Doc'.siteSettings = (DOMAIN Doc.siteSettings) \cup {D}
                /\ Doc'.siteSettings[D] = s
                /\ \A d \in (DOMAIN Doc.siteSettings) \ {D} :
                        Doc'.siteSettings[d] = Doc.siteSettings[d]
                /\ Doc'.favoriteFonts = Doc.favoriteFonts
                /\ Doc'.presets = Doc.presets
      ]_vars

\* a domain has been given inactive settings while the other domain,
\* fonts and presets are stored
C4_Witness_Overwritten ==
    /\ Returned(1, "setSiteSettings")
    /\ DOMAIN Doc.siteSettings = Domains
    /\ Doc.siteSettings[op[1].args[1]] = op[1].args[2]
    /\ \E d \in Domains : Doc.siteSettings[d] # op[1].args[2]
    /\ Len(Doc.favoriteFonts) > 0
    /\ Len(Doc.presets) > 0

\* ---------------------------------------------------------------- C5
\* C5: with the store reachable, removeFavoriteFont of a name that is not
\* stored, removeSite of a domain that is not stored and removePreset of an
\* id that no preset has complete normally and leave the document as it
\* was; updatePreset of such an id returns at once without writing.
C5_MissingEntityNoOp ==
    [][\A c \in SeqCtx :
        /\ ( /\ DoneStep(c, "removeFavoriteFont") /\ storeUp
             /\ op[c].args[1] \notin Range(Doc.favoriteFonts) )
           => (ret'[c] = Fulfilled(Undefined) /\ Doc' = Doc)
        /\ ( /\ DoneStep(c, "removeSite") /\ storeUp
             /\ op[c].args[1] \notin DOMAIN Doc.siteSettings )
           => (ret'[c] = Fulfilled(Undefined) /\ Doc' = Doc)
        /\ ( /\ DoneStep(c, "removePreset") /\ storeUp
             /\ \A p \in Range(Doc.presets) : p.id # op[c].args[1] )
           => (ret'[c] = Fulfilled(Undefined) /\ Doc' = Doc)
        /\ ( /\ CallStep(c, "updatePreset") /\ storeUp
             /\ \A p \in Range(Doc.presets) : p.id # op'[c].args[1] )
           => (pc'[c] = "idle" /\ ret'[c] = Fulfilled(Undefined) /\ store' = store)
        /\ \A name \in {"removeFavoriteFont", "removeSite", "removePreset"} :
              (CallStep(c, name) /\ storeUp)
                 => (pc'[c] = "setStorage" /\ store' = store)
      ]_vars

\* removeFavoriteFont has returned for a padded name, which no stored font
\* equals, while the font of that name without the padding is still stored
C5_Witness_AbsentFont ==
    /\ Returned(1, "removeFavoriteFont")
    /\ op[1].args[1] # Trim(op[1].args[1])
    /\ Trim(op[1].args[1]) \in Range(Doc.favoriteFonts)
    /\ Len(Doc.presets) > 0
    /\ DOMAIN Doc.siteSettings # {}

\* ---------------------------------------------------------------- C6
\* C6: the ids of the persisted presets are pairwise distinct.
C6_PresetIdsDistinct ==
    \A i, j \in 1..Len(Doc.presets) :
        i # j => Doc.presets[i].id # Doc.presets[j].id

\* ---------------------------------------------------------------- C7
\* C7: a completed updatePreset(id, name, fontFamily, styles) for an id that
\* is present puts the trimmed name, fontFamily and styles in the first
\* preset of that id, keeps its id and position, and changes no other
\* preset, nor the number of presets, nor the other fields.
C7_UpdatePresetInPlace ==
    [][\A c \in SeqCtx :
        (DoneStep(c, "updatePreset") /\ storeUp) =>
            LET old == Doc.presets
                new == Doc'.presets
                i == CHOOSE k \in 1..Len(old) :
                        /\ old[k].id = op[c].args[1]
                        /\ \A j \in 1..(k - 1) : old[j].id # op[c].args[1]
            IN  /\ \E k \in 1..Len(old) : old[k].id = op[c].args[1]
                /\ Len(new) = Len(old)
                /\ new[i].id = old[i].id
                /\ new[i].name = Trim(op[c].args[2])
                /\ new[i].fontFamily = op[c].args[3]
                /\ new[i].styles = op[c].args[4]
                /\ \A j \in 1..Len(old) : j # i => new[j] = old[j]
                /\ Doc'.favoriteFonts = Doc.favoriteFonts
                /\ Doc'.siteSettings = Doc.siteSettings
      ]_vars

\* the second of two presets has been updated with a padded name
C7_Witness_Updated ==
    /\ Returned(1, "updatePreset")
    /\ Len(Doc.presets) = 2
    /\ Doc.presets[1].id # op[1].args[1]
    /\ Doc.presets[2].id = op[1].args[1]
    /\ op[1].args[2] # Trim(op[1].args[2])
    /\ Doc.presets[2].name = Trim(op[1].args[2])
    /\ Doc.presets[2].styles = op[1].args[4]
    /\ Doc.presets[1].styles # op[1].args[4]

C9_GetStorageNeverFails ==
    \A c \in Ctx :
        (pc[c] = "idle" /\ op[c].name = "getStorage") =>
            /\ ret[c].status = "fulfilled"
            /\ DOMAIN ret[c].value[1] = Keys

\* C9 amended: when the store read succeeds, getStorage returns a document
\* with the three fields, each stored field with its stored value and each
\* field that is not stored empty; when the store is unreachable the call
\* rejects.  Neither changes the store.
C9_GetStorageDefaults ==
    [][\A c \in Ctx :
        CallStep(c, "getStorage") =>
            /\ store' = store
            /\ pc'[c] = "idle"
            /\ storeUp =>
                  /\ ret'[c].status = "fulfilled"
                  /\ DOMAIN ret'[c].value[1] = Keys
                  /\ \A k \in Keys :
                        ret'[c].value[1][k] =
                            IF k \in DOMAIN store THEN store[k] ELSE <<>>
            /\ ~storeUp => ret'[c] = Rejected
      ]_vars

\* getStorage has returned a full document from a store that holds fonts
\* but neither siteSettings nor presets
C9_Witness_FilledDefaults ==
    /\ Returned(1, "getStorage")
    /\ DOMAIN store = {"favoriteFonts"}
    /\ Len(store.favoriteFonts) > 0
    /\ DOMAIN ret[1].value[1] = Keys

\* ---------------------------------------------------------------- C10
\* C10: a write that completes leaves in each field it writes exactly the
\* value its own call computed from its own read, whatever was written in
\* between; so of two calls that both read before either writes, the
\* field ends as the later writer's value (C10_Witness_LostUpdate).
C10_LastWriteWins ==
    [][\A c \in Ctx :
        (pc[c] = "setStorage" /\ pc'[c] = "idle" /\ ret'[c].status = "fulfilled") =>
            /\ \A k \in DOMAIN data[c] : store'[k] = data[c][k]
            /\ \A k \in (DOMAIN store) \ (DOMAIN data[c]) : store'[k] = store[k]
      ]_vars

\* both contexts have completed setSiteSettings, for different domains, and
\* only the domain of context 2 is stored (nothing removes a site here)
C10_Witness_LostUpdate ==
    /\ Returned(1, "setSiteSettings")
    /\ Returned(2, "setSiteSettings")
    /\ op[1].args[1] # op[2].args[1]
    /\ DOMAIN Doc.siteSettings = {op[2].args[1]}

\* ---------------------------------------------------------------- C11
\* the step in which the page's listener processes the oldest message
MessageStep == Len(msgs') < Len(msgs)

\* the step in which the oldest load-and-apply run completes
RunStep == Len(runs') < Len(runs)

\* the step in which a run's chrome.storage.sync.get answers
ReadStep(i) ==
    /\ i \in 1..Len(runs)
    /\ Len(runs') = Len(runs)
    /\ runs[i].stage = "get"
    /\ runs'[i].stage # "get"

\* C11: processing an APPLY_STYLES message with settings x leaves exactly one
\* injected element, carrying generateCSS(x), when x is not null and none
\* when x is null, whatever was injected before; so a second message with
\* the same x leaves the elements as the first did, and no step of a
\* message or of a load-and-apply run leaves two injected elements.
C11_ApplyIdempotent ==
    [][/\ Len(styleEls') <= 1
       /\ MessageStep =>
            LET x == Head(msgs).settings
            IN  /\ styleEls' = IF x # Null THEN <<generateCSS(x[1])>> ELSE <<>>
                /\ (applied # <<>> /\ applied[1].settings = x) => styleEls' = styleEls
      ]_vars

\* two messages with the same settings have been processed in a row, after
\* a load-and-apply run had injected an element
C11_Witness_AppliedTwice ==
    /\ applied # <<>>
    /\ applied[1].twice
    /\ applied[1].settings # Null
    /\ lastRun \in {"injected", "replaced"}
    /\ styleEls = <<generateCSS(applied[1].settings[1])>>

\* ---------------------------------------------------------------- C12
\* C12: the chrome.storage.sync.get of a run answers with the settings stored
\* for the page's hostname at that moment (null when none), and when the
\* run then completes exactly one injected element carries generateCSS of
\* those settings if they are there and active, and no injected element is
\* left otherwise.
C12_LoadAndApply ==
    [][/\ \A i \in 1..Len(runs) :
            (ReadStep(i) /\ storeUp) =>
                /\ runs'[i].stage = "got"
                /\ runs'[i].site =
                      IF /\ "siteSettings" \in DOMAIN store
                         /\ getCurrentDomain \in DOMAIN store.siteSettings
                      THEN <<store.siteSettings[getCurrentDomain]>>
                      ELSE <<>>
       /\ (RunStep /\ Head(runs).stage = "got") =>
            LET site == Head(runs).site
            IN  IF site # <<>> /\ site[1].isActive
                THEN styleEls' = <<generateCSS(site[1])>>
                ELSE styleEls' = <<>>
      ]_vars

\* a run has removed the injected element after reading the inactive
\* settings that are still stored
C12_Witness_Removed ==
    /\ lastRun = "removed"
    /\ styleEls = <<>>
    /\ getCurrentDomain \in DOMAIN Doc.siteSettings
    /\ ~Doc.siteSettings[getCurrentDomain].isActive
    /\ runs = <<>>

\* ---------------------------------------------------------------- C13
\* C13: a load-and-apply run whose store read fails completes without an
\* uncaught error and leaves the page without injected element, on the
\* first load and on a later run alike.
C13_UnreachableLeavesUnstyled ==
    [][(RunStep /\ Head(runs).stage = "failed") =>
            /\ unhandled' = unhandled
            /\ styleEls' = <<>>
      ]_vars

\* ---------------------------------------------------------------- C14
\* nothing is on its way: no store call or handler is pending, no change
\* event, message or run is in flight, and the content script is loaded
Quiescent ==
    /\ storeUp
    /\ observer # "unloaded"
    /\ \A c \in Ctx : pc[c] = "idle" /\ Free(c)
    /\ notes = <<>>
    /\ msgs = <<>>
    /\ runs = <<>>

\* the persisted settings of the page's hostname are there and active
SiteActive ==
    /\ getCurrentDomain \in DOMAIN Doc.siteSettings
    /\ Doc.siteSettings[getCurrentDomain].isActive

\* C14: once nothing is on its way any more, the page holds an injected
\* element iff the persisted settings of its hostname are there and active,
\* and the element carries generateCSS of the persisted settings.
C14_EventuallyConsistent ==
    Quiescent =>
        styleEls = IF SiteActive
                   THEN <<generateCSS(Doc.siteSettings[getCurrentDomain])>>
                   ELSE <<>>

\* ---------------------------------------------------------------- C15
\* C15: once nothing is on its way any more and the observer has no record
\* left to process, a page whose persisted settings are active holds the
\* injected element, whenever page scripts removed it.
C15_SelfHealing ==
    (Quiescent /\ observer = "on" /\ ~batch /\ SiteActive) => styleEls # <<>>

\* ---------------------------------------------------------------- C19
\* the step in which the popup handler of context c goes on after its
\* setSiteSettings has stored the new settings
EditDoneStep(c) ==
    /\ handler[c].name \in PopupHandlers
    /\ handler[c].stage = "await"
    /\ handler'[c].name = "none"
    /\ ret[c].status = "fulfilled"

\* C19: the message a popup handler sends once its edit is stored carries
\* null if the settings just stored for its domain are inactive and those
\* settings, whole, if they are active; and when the page has processed a
\* message that carries null it holds no injected element.
C19_NullMeansDeactivate ==
    [][/\ \A c \in Ctx :
            (EditDoneStep(c) /\ observer # "unloaded") =>
                LET stored == lastSet[op[c].args[1]][1]
                    sent == msgs'[Len(msgs')]
                IN  /\ Len(msgs') = Len(msgs) + 1
                    /\ sent.action = "APPLY_STYLES"
                    /\ sent.domain = op[c].args[1]
                    /\ (sent.settings = <<>>) <=> ~stored.isActive
                    /\ stored.isActive => sent.settings = <<stored>>
       /\ (MessageStep /\ Head(msgs).settings = <<>>) => styleEls' = <<>>
      ]_vars

\* the page, styled by a run before, has processed the message with null
\* that the popup sent after storing inactive settings
C19_Witness_Deactivated ==
    /\ applied # <<>>
    /\ applied[1].settings = <<>>
    /\ lastRun \in {"injected", "replaced"}
    /\ styleEls = <<>>
    /\ getCurrentDomain \in DOMAIN Doc.siteSettings
    /\ ~Doc.siteSettings[getCurrentDomain].isActive
    /\ Returned(1, "setSiteSettings")
    /\ handler[1].name = "none"

\* ---------------------------------------------------------------- C16
\* the declarations of the injected rule for `*:not(...)`
InjectedDecls == Range(styleEls[1].all)

\* C16: the injected CSS of a site has no font-weight declaration when the
\* site's fontWeight is "inherit", and for any other fontWeight w it has the
\* declaration font-weight: w, marked !important.
C16_FontWeightIffNotInherit ==
    styleEls # <<>> =>
        LET w == store.siteSettings[getCurrentDomain].styles.fontWeight
        IN  /\ w = "inherit" => \A d \in InjectedDecls : d.prop # "font-weight"
            /\ w # "inherit" =>
                  \E d \in InjectedDecls :
                      d.prop = "font-weight" /\ d.value = <<w>> /\ d.important

\* the CSS of a site whose fontWeight is "inherit" has been injected
C16_Witness_Inherit ==
    /\ styleEls # <<>>
    /\ lastRun = "injected"
    /\ store.siteSettings[getCurrentDomain].styles.fontWeight = "inherit"
    /\ \E d \in InjectedDecls : d.prop = "font-family"

\* ---------------------------------------------------------------- C17
\* class substrings the spec excludes, but for those with mono
ExcludedSubstrings ==
    { <<"icon">>, <<"Icon">>, <<"fa", "-">>, <<"material", "-", "icon", "s">>,
      <<"glyph", "icon">>, <<"emoji">> }

\* an svg element or a descendant of one, or a code, pre or kbd element
ExcludedByTag(el) ==
    el.tag \in {"svg", "code", "pre", "kbd"} \/ el.inSvg

\* C17: the injected rule that sets font-family, line-height, letter-spacing
\* and word-spacing does not select the probe when the probe's class
\* contains icon, Icon, fa-, material-icons, glyphicon, emoji, mono or
\* monospace, or the probe is an svg element or inside one, or a code, pre
\* or kbd element.
C17_ExclusionsRespected ==
    ( /\ styleEls # <<>>
      /\ \/ ExcludedByTag(probe)
         \/ \E sub \in ExcludedSubstrings \cup {<<"mono">>, <<"mono", "space">>} :
                Contains(probe.class, sub) )
    => ~Selects(styleEls[1].notSelectors, probe)

\* ---------------------------------------------------------------- C18
InternalSchemes == {"chrome:", "edge:", "about:", "chrome-extension:"}

\* C18: for the URL scheme://host/a the popup got, extractDomain returned
\* host when the scheme is none of chrome:, edge:, about: and
\* chrome-extension: (and the string is a URL: http and https need a host),
\* and null for those schemes; it returned null for about:blank and for
\* the strings that are no URLs.
C18_ExtractDomain ==
    popup.stage # "closed" =>
        /\ \A sc \in Schemes, h \in Hosts :
              popup.url = Href(sc, h, "/a") =>
                 popup.extractedDomain =
                    IF sc \in InternalSchemes THEN <<>>
                    ELSE IF sc \in {"https:", "http:"} /\ h = "" THEN <<>>
                    ELSE <<h>>
        /\ popup.url \in {<<"about:", "blank">>, <<"example.com", "/a">>,
                          <<"//", "site.org">>, <<>>}
              => popup.extractedDomain = <<>>

\* the popup is ready on https://site.org/a, with the hostname as its domain
C18_Witness_Hostname ==
    /\ popup.stage = "ready"
    /\ popup.url = Href("https:", "site.org", "/a")
    /\ popup.extractedDomain = <<"site.org">>
    /\ popup.domain = <<"site.org">>

\* ---------------------------------------------------------------- C20
\* the step in which the handler name is started in context c (the one
\* other step of a free handler that changes the message clears it)
InvokeStep(c, name) ==
    /\ Free(c)
    /\ handler'[c].name = name
    /\ handler'[c] # handler[c] \/ message' \notin {message, ""}

\* the step leaves the store alone, starts no store call and throws nothing
NothingStored ==
    /\ store' = store
    /\ \A c \in Ctx : pc'[c] = "idle"
    /\ unhandled' = unhandled

\* C20: handleSavePreset with a name of spaces only or without font, and
\* handleAddFont without font name, return with an error message and
\* without a store call; handleAddFont with a name that is registered (or
\* of spaces only) writes nothing, is told false by the store that answers,
\* and then returns with an error message; nothing is stored or thrown on
\* the way.
C20_InvalidInputRefused ==
    [][\A c \in SeqCtx :
        /\ InvokeStep(c, "handleSavePreset") =>
              LET presetName == handler'[c].args[1]
                  presetFont == handler'[c].args[2]
              IN  ((\A i \in 1..Len(presetName) : presetName[i] = " ")
                      \/ Len(presetFont) = 0)
                  => /\ NothingStored
                     /\ handler'[c].stage = "done"
                     /\ message' \in {"enter a preset name", "select a font"}
        /\ InvokeStep(c, "handleAddFont") =>
              LET manual == handler'[c].args[1]
                  input == handler'[c].args[2]
                  blank == \A i \in 1..Len(input) : input[i] = " "
                  known == \E i \in 1..Len(Doc.favoriteFonts) :
                                Doc.favoriteFonts[i] = Trim(input)
              IN  /\ ((manual /\ blank) \/ Len(input) = 0)
                        => /\ NothingStored
                           /\ handler'[c].stage = "done"
                           /\ message' = "select or enter a font"
                  /\ ((blank \/ known) /\ handler'[c].stage = "await")
                        => /\ NothingStored
                           /\ storeUp => ret'[c] = Fulfilled(FALSE)
        /\ ( /\ handler[c].name = "handleAddFont"
             /\ handler[c].stage = "await"
             /\ handler'[c].stage # "await"
             /\ ret[c] = Fulfilled(FALSE) )
           => /\ NothingStored
              /\ handler'[c].stage = "done"
              /\ message' = "font already registered"
      ]_vars

\* handleAddFont has been refused a font that is registered, padded with a
\* space in the select, and a preset is stored
C20_Witness_Duplicate ==
    /\ handler[1].name = "handleAddFont"
    /\ handler[1].stage = "done"
    /\ ~handler[1].args[1]
    /\ handler[1].args[2] # Trim(handler[1].args[2])
    /\ Trim(handler[1].args[2]) \in Range(Doc.favoriteFonts)
    /\ message = "font already registered"
    /\ Len(Doc.presets) > 0

\* ---------------------------------------------------------------- C21
\* the step in which the UI handler of context c goes on after the store
\* call it awaited has rejected
FailedStep(c) ==
    /\ handler[c].stage = "await"
    /\ pc[c] = "idle"
    /\ ret[c].status = "rejected"
    /\ handler'[c] # handler[c]

\* C21: when the store call a popup or options handler awaits has rejected,
\* the handler ends without an uncaught rejection, shows no success message
\* and sends no APPLY_STYLES message.
C21_FailureCaught ==
    [][\A c \in Ctx :
        FailedStep(c) =>
            /\ ~unhandled'
            /\ msgs' = msgs
            /\ message' = message
      ]_vars

\* ---------------------------------------------------------------- C22
\* the step in which the MutationObserver callback runs
CallbackStep == batch /\ ~batch'

\* C22: the callback starts a run exactly when isApplied holds and the
\* element is absent, leaves the element alone, and sets isApplied to the
\* element's presence; isApplied is the presence at the last check: while
\* the observer is on with no record queued it equals the presence.
C22_WatchdogReruns ==
    /\ [][CallbackStep =>
            LET was == isApplied
                now == (styleEls # <<>>)
            IN  /\ styleEls' = styleEls
                /\ runs' = IF was /\ ~now
                           THEN Append(runs, [stage |-> "get", site |-> Null])
                           ELSE runs
                /\ isApplied' = now
         ]_vars
    /\ []((observer = "on" /\ ~batch) => (isApplied = (styleEls # <<>>)))

\* no write has completed, so no change event has started a run; a run has
\* injected the element, the page has removed it, and the callback has
\* started the run that is in flight
C22_Witness_Rerun ==
    /\ \A d \in Domains : lastSet[d] = Null
    /\ lastRun = "injected"
    /\ styleEls = <<>>
    /\ observer = "on"
    /\ ~batch
    /\ ~isApplied
    /\ runs # <<>>

\* ---------------------------------------------------------------- C23
\* the step in which the chrome.storage.onChanged listener gets an event
NoteStep == Len(notes') < Len(notes)

\* the keys whose stored value the step changes
KeysChanged ==
    {k \in DOMAIN store' : k \notin DOMAIN store \/ store[k] # store'[k]}

\* C23: a write that changes stored values sends the loaded page an event
\* with just the changed keys; the listener starts a run if and only if
\* the keys of its event include siteSettings, and leaves the injected
\* element alone in either case.
C23_RerunIffSiteSettings ==
    [][/\ (store' # store /\ observer # "unloaded") =>
            notes' = Append(notes, KeysChanged)
       /\ NoteStep =>
            /\ notes' = Tail(notes)
            /\ runs' = IF "siteSettings" \in Head(notes)
                       THEN Append(runs, [stage |-> "get", site |-> Null])
                       ELSE runs
            /\ styleEls' = styleEls
      ]_vars

\* on the loaded page no write of site settings has completed, the options
\* page has added a font, the event of that write has been delivered, and
\* no run was started: the element is the one of the page load
C23_Witness_FontsOnly ==
    /\ \A d \in Domains : lastSet[d] = Null
    /\ Doc.favoriteFonts = <<FontA, FontAA>>
    /\ observer = "on"
    /\ notes = <<>>
    /\ runs = <<>>
    /\ lastRun = "injected"
    /\ styleEls = <<generateCSS(LoadedSettings)>>

\* ---------------------------------------------------------------- C24
\* the UI handlers that change the settings of a site
SiteHandlers == PopupHandlers \cup {"onChangeSitePreset", "handleRemoveSite"}

\* the step in which such a handler of context c goes on after its store
\* call has returned
SiteStoredStep(c) ==
    /\ handler[c].name \in SiteHandlers
    /\ handler[c].stage = "await"
    /\ handler'[c] # handler[c]
    /\ ret[c].status = "fulfilled"

\* C24: a handler that changes the settings of a site sends the listening
\* page one APPLY_STYLES message for the site once its write has completed,
\* and a message is sent only in such a step, by a handler whose write has
\* completed.
C24_WriteThenNotify ==
    [][/\ \A c \in Ctx :
            (SiteStoredStep(c) /\ observer # "unloaded") =>
                /\ pc[c] = "idle"
                /\ Len(msgs') = Len(msgs) + 1
                /\ msgs'[Len(msgs')].action = "APPLY_STYLES"
                /\ msgs'[Len(msgs')].domain = handler[c].args[1]
       /\ Len(msgs') > Len(msgs) =>
            \E c \in Ctx :
                /\ SiteStoredStep(c)
                /\ pc[c] = "idle"
                /\ op[c].name \in {"setSiteSettings", "removeSite"}
                /\ op[c].args[1] = msgs'[Len(msgs')].domain
      ]_vars

\* ---------------------------------------------------------------- C25
\* the UI handlers that edit a registered site
EditHandlers ==
    {"handleToggleActive", "handleFontChange", "handleStyleChange",
     "handleApplyPreset", "onChangeSitePreset"}

\* the step in which the write of an edit of context c takes effect
EditWriteStep(c) ==
    /\ DoneStep(c, "setSiteSettings")
    /\ ret'[c].status = "fulfilled"
    /\ handler[c].name \in EditHandlers
    /\ handler[c].stage = "await"
    /\ op[c].args[1] \in DOMAIN Doc.siteSettings

\* the copy of the site's settings the UI of context c holds
UiCopy(c) ==
    IF handler[c].name = "onChangeSitePreset"
    THEN optStorage.siteSettings[op[c].args[1]]
    ELSE popup.settings[1]

\* settings b differ from settings a in the fields of the edit name only
FrameOf(name, a, b) ==
    CASE name = "handleToggleActive" ->
            /\ b.isActive = ~a.isActive
            /\ b.fontFamily = a.fontFamily
            /\ b.styles = a.styles
      [] name = "handleFontChange" ->
            /\ b.isActive = a.isActive
            /\ b.styles = a.styles
      [] name = "handleStyleChange" ->
            /\ b.isActive = a.isActive
            /\ b.fontFamily = a.fontFamily
            /\ Cardinality({k \in DOMAIN a.styles : a.styles[k] # b.styles[k]}) <= 1
      [] OTHER ->
            /\ b.isActive = a.isActive
            /\ \E p \in Range(Doc.presets) :
                    b.fontFamily = p.fontFamily /\ b.styles = p.styles

\* C25 as stated: the write of an edit changes the stored settings of the
\* site in the fields of the edit only.
C25_EditFrame ==
    [][\A c \in Ctx :
        EditWriteStep(c) =>
            FrameOf(handler[c].name, Doc.siteSettings[op[c].args[1]],
                    Doc'.siteSettings[op[c].args[1]])
      ]_vars

\* C25, amended: the write of an edit stores the copy of the site's
\* settings that the UI holds, changed in the fields of the edit only; so
\* the stored settings change in these fields only when the copy is the
\* stored settings.
C25_EditFrameOfCopy ==
    [][\A c \in Ctx :
        EditWriteStep(c) =>
            LET d == op[c].args[1]
            IN  /\ FrameOf(handler[c].name, UiCopy(c), Doc'.siteSettings[d])
                /\ UiCopy(c) = Doc.siteSettings[d] =>
                        FrameOf(handler[c].name, Doc.siteSettings[d],
                                Doc'.siteSettings[d])
      ]_vars

\* the options page has applied the preset to the site, and the popup,
\* opened before, has then stored its toggle: the stored font is again the
\* one of the popup's copy
C25_Witness_StaleCopy ==
    /\ message = "preset applied"
    /\ handler[1].name = "handleToggleActive"
    /\ handler[1].stage = "await"
    /\ Returned(1, "setSiteSettings")
    /\ popup.settings = Some(LoadedSettings)
    /\ Doc.siteSettings[getCurrentDomain] =
            [LoadedSettings EXCEPT !.isActive = FALSE]

\* ---------------------------------------------------------------- C26
\* the top-level field a store function writes
FieldOf(name) ==
    CASE name \in {"addFavoriteFont", "removeFavoriteFont"} -> "favoriteFonts"
      [] name \in {"setSiteSettings", "removeSite"} -> "siteSettings"
      [] OTHER -> "presets"

\* the change of the call that context c has completed is in the document
ChangeStored(c) ==
    CASE op[c].name = "addFavoriteFont" ->
            ret[c].value[1] = TRUE => Includes(Doc.favoriteFonts, Trim(op[c].args[1]))
      [] op[c].name = "removeFavoriteFont" ->
            ~Includes(Doc.favoriteFonts, op[c].args[1])
      [] op[c].name = "setSiteSettings" ->
            SiteLookup(Doc.siteSettings, op[c].args[1]) = Some(op[c].args[2])
      [] op[c].name = "removeSite" ->
            SiteLookup(Doc.siteSettings, op[c].args[1]) = Null
      [] op[c].name = "addPreset" ->
            Includes(Doc.presets, ret[c].value[1])
      [] op[c].name = "removePreset" ->
            FindIndex(Doc.presets, op[c].args[1]) = 0
      [] OTHER -> TRUE

\* C26: the write of a mutator changes the stored value of its own
\* top-level field only, whatever the other chains have read or written;
\* and whenever a chain has completed its mutator, the change of that
\* mutator is in the document, each field being written by one chain.
C26_FieldsIndependent ==
    /\ [][\A c \in Ctx :
            (pc[c] = "setStorage" /\ pc'[c] = "idle") =>
                \A k \in Keys \ {FieldOf(op[c].name)} :
                    /\ (k \in DOMAIN store') = (k \in DOMAIN store)
                    /\ k \in DOMAIN store => store'[k] = store[k]
         ]_vars
    /\ [](\A c \in Ctx :
            (pc[c] = "idle" /\ op[c].name # "none" /\ ret[c].status = "fulfilled")
                => ChangeStored(c))

\* the three chains have each completed a mutator, their reads and writes
\* interleaved in some order: the font, the site and the preset are stored
C26_Witness_AllThree ==
    /\ \A c \in Ctx : pc[c] = "idle" /\ ret[c].status = "fulfilled"
    /\ op[1].name = "addFavoriteFont"
    /\ op[2].name = "setSiteSettings"
    /\ op[3].name = "addPreset"
    /\ Doc.favoriteFonts = <<Trim(op[1].args[1])>>
    /\ DOMAIN Doc.siteSettings = {getCurrentDomain}
    /\ Len(Doc.presets) = 1

\* ---------------------------------------------------------------- C27
\* C27: an APPLY_STYLES message whose domain is not the hostname of the
\* page leaves the injected element as it is, so the element never carries
\* settings other than those stored or sent for the page's hostname.
C27_OnlyOwnDomain ==
    [][(MessageStep /\ Head(msgs).domain # getCurrentDomain) =>
            styleEls' = styleEls
      ]_vars

\* ---------------------------------------------------------------- C28
\* the two chains of popup handlers have each completed an edit
BothDone ==
    \A c \in {1, 3} :
        /\ Free(c)
        /\ handler[c].name = "none"
        /\ Returned(c, "setSiteSettings")

\* C28 as stated: when both chains have completed, the stored settings of
\* the domain hold the isActive of the last toggle (chain 1) and the font
\* and styles of the last other edit (chain 3), and they are the popup's
\* settings state.
C28_EditsNotLost ==
    BothDone =>
        LET stored == Doc.siteSettings[getCurrentDomain]
        IN  /\ stored.isActive = op[1].args[2].isActive
            /\ stored.fontFamily = op[3].args[2].fontFamily
            /\ stored.styles = op[3].args[2].styles
            /\ popup.settings = Some(stored)

\* the step in which a popup handler is started in chain c
PopupInvokeStep(c) ==
    /\ Free(c)
    /\ handler'[c].stage = "await"
    /\ handler'[c].name \in EditHandlers \ {"onChangeSitePreset"}

\* C28, amended: a popup edit builds its settings from the popup's settings
\* state at the moment it is started, changed in its own fields only; its
\* write stores exactly these settings and its completion makes them the
\* popup's settings state. So when both chains have completed, the stored
\* settings and the popup's state are each the settings of one of the two
\* edits, whole, the stored ones those of the write that completed last.
C28_LastEditWins ==
    /\ [][\A c \in {1, 3} :
            /\ PopupInvokeStep(c) =>
                    /\ FrameOf(handler'[c].name, popup.settings[1], handler'[c].args[2])
                    /\ op'[c].args = handler'[c].args
            /\ EditWriteStep(c) =>
                    Doc'.siteSettings[op[c].args[1]] = handler[c].args[2]
            /\ EditDoneStep(c) =>
                    popup'.settings = Some(handler[c].args[2])
         ]_vars
    /\ [](BothDone =>
            /\ Doc.siteSettings[getCurrentDomain] = lastSet[getCurrentDomain][1]
            /\ Doc.siteSettings[getCurrentDomain] \in {op[1].args[2], op[3].args[2]}
            /\ popup.settings[1] \in {op[1].args[2], op[3].args[2]})

\* chain 1 has toggled the site off and chain 3 has changed the font, both
\* started from the settings the popup had read; the font change was
\* written last and went on last: the site is stored active, the toggle
\* is lost
C28_Witness_ToggleLost ==
    /\ BothDone
    /\ op[1].args[2] = [LoadedSettings EXCEPT !.isActive = FALSE]
    /\ op[3].args[2] = [LoadedSettings EXCEPT !.fontFamily = FontAA]
    /\ Doc.siteSettings[getCurrentDomain] = op[3].args[2]
    /\ popup.settings = Some(op[3].args[2])

====
